---- MODULE Spec2Model ----
(***************************************************************************)
(* A model of the no-guess board generator of minesweeper-js:              *)
(*   - LogicSolver.isSolvable (src/domain/services/LogicSolver.js), the    *)
(*     simulation of deductive play, one step per reveal call and per      *)
(*     scanned cell;                                                       *)
(*   - gameServiceFactory, generateMinePositions and findZeroMineCell      *)
(*     (src/infrastructure/ServiceRegistration.js), the bounded            *)
(*     rejection-sampling loop;                                            *)
(*   - MinesweeperGameService (src/application/MinesweeperGameService.js), *)
(*     the first-move handling of the game session.                        *)
(* Positions are pairs <<x, y>> with x in [0, rows) and y in [0, cols).    *)
(***************************************************************************)
EXTENDS Integers, Sequences, FiniteSets

VARIABLES
    \* LogicSolver.isSolvable and gameServiceFactory
    board,          \* the board: isSolvable's argument, the factory's local
    startPosition,  \* isSolvable's argument, the factory's local
    sim,            \* the locals of the running isSolvable call
    calls,          \* number of isSolvable calls started on (board, startPosition)
    verdicts,       \* the booleans those calls returned, in order
    \* gameServiceFactory and generateMinePositions
    config,         \* {rows, cols, minesNumber}
    attemptCount,
    isSolvableFlag, \* the factory's local isSolvable
    gpc,            \* where the factory (or the sampler) stands
    positions,      \* generateMinePositions' list
    service,        \* the returned game service (its board), or NoService
    signal,         \* "warn" (line 90), "log" (line 92) or "none"
    error,          \* the message of the Error thrown, or "none"
    drawn,          \* history: a coordinate has been drawn with Math.random
    firstTrue,      \* history: the first attempt whose verdict was true, or 0
    verifiedBoard,  \* history: the board of that attempt, or NoBoard
    placeMinesCalls,  \* history: board.placeMines calls of this generation
    boardWrites,    \* history: board.placeMines calls the current board received
    \* MinesweeperGameService
    isGameActive,
    isFirstMove,
    onFirstMoveInitialization,  \* "unset" or "set" (a callback is registered)
    trace,          \* history: startNewGame calls, initializer invocations and
                    \* cellInteractionService.revealCell runs, in order
    missed,         \* history: a first move was made with no initializer registered
    \* the reference deduction
    ref             \* the grid of the reference model of the deduction, or <<>>

solverVars == <<sim, calls, verdicts>>

genVars ==
    <<config, attemptCount, isSolvableFlag, gpc, positions, service, signal, error, drawn,
      firstTrue, verifiedBoard, placeMinesCalls, boardWrites>>

gameVars == <<isGameActive, isFirstMove, onFirstMoveInitialization, trace, missed>>

vars == <<board, startPosition, solverVars, genVars, gameVars, ref>>

(***************************************************************************)
(* Bounds of the model.                                                    *)
(***************************************************************************)
MaxCells == 9       \* boards have at most this many cells
MaxMines == 3       \* boards with consistent counts hold at most this many mines
MaxFreeCells == 4   \* boards with arbitrary facts have at most this many cells
MaxFreeValue == 1   \* and counts up to this
MaxCalls == 2       \* isSolvable calls on the same arguments
GenMaxCells == 4    \* generated boards have at most this many cells
GenMaxMines == 2    \* and at most this many mines (when the configuration is valid)
MaxTrace == 6       \* recorded events of a game service
DefMaxCells == 12   \* boards mined at the first move have at most this many cells
DefMaxMines == 2    \* and at most this many mines (when the configuration is valid)

(***************************************************************************)
(* Boards.                                                                 *)
(***************************************************************************)
Cells(bounds) == (0 .. bounds.rows - 1) \X (0 .. bounds.cols - 1)

Shapes == {sh \in [rows : 1 .. MaxCells, cols : 1 .. MaxCells] : sh.rows * sh.cols <= MaxCells}

\* The offsets of getNeighbors, in the order of its two nested loops.
Offsets ==
    << <<-1, -1>>, <<-1, 0>>, <<-1, 1>>, <<0, -1>>, <<0, 1>>, <<1, -1>>, <<1, 0>>, <<1, 1>> >>

InBounds(bounds, c) ==
    c[1] >= 0 /\ c[1] < bounds.rows /\ c[2] >= 0 /\ c[2] < bounds.cols

\* getNeighbors(x, y): the in-bounds neighbours of a cell, as a list.
getNeighbors(bounds, c) ==
    SelectSeq([i \in 1 .. 8 |-> <<c[1] + Offsets[i][1], c[2] + Offsets[i][2]>>],
              LAMBDA n : InBounds(bounds, n))

SeqToSet(s) == {s[i] : i \in 1 .. Len(s)}

\* The adjacency count NeighborService.calculateMineCountsForBoard writes:
\* the number of 8-connected in-bounds neighbours that hold a mine.
AdjacentMineCount(bounds, mines, c) ==
    Cardinality(SeqToSet(getNeighbors(bounds, c)) \cap mines)

\* A board as getCellAt shows it: per position a result (isSuccess) and the
\* cell's containsMine and adjacentMines.
MakeBoard(bounds, mines) ==
    [bounds |-> bounds,
     cells |-> [c \in Cells(bounds) |->
                  [isSuccess |-> TRUE,
                   containsMine |-> c \in mines,
                   adjacentMines |-> AdjacentMineCount(bounds, mines, c)]]]

MineCells(b) == {c \in Cells(b.bounds) : b.cells[c].isSuccess /\ b.cells[c].containsMine}

\* The counts of a board agree with its mines, and every cell is there.
Consistent(b) ==
    \A c \in Cells(b.bounds) :
        /\ b.cells[c].isSuccess
        /\ b.cells[c].adjacentMines = AdjacentMineCount(b.bounds, MineCells(b), c)

ConsistentBoards ==
    UNION {{MakeBoard(sh, m) : m \in {s \in SUBSET Cells(sh) : Cardinality(s) <= MaxMines}} :
           sh \in Shapes}

\* What getCellAt can answer for one position of an arbitrary board: no cell,
\* a mine, or a safe cell with any count.
FreeCellFacts ==
    {[isSuccess |-> FALSE, containsMine |-> FALSE, adjacentMines |-> 0],
     [isSuccess |-> TRUE, containsMine |-> TRUE, adjacentMines |-> 0]}
    \cup {[isSuccess |-> TRUE, containsMine |-> FALSE, adjacentMines |-> v] :
            v \in 0 .. MaxFreeValue}

\* Small boards with arbitrary facts (counts that need not agree with the mines).
FreeBoards ==
    UNION {{[bounds |-> sh, cells |-> f] : f \in [Cells(sh) -> FreeCellFacts]} :
           sh \in {t \in Shapes : t.rows * t.cols <= MaxFreeCells}}

Boards == ConsistentBoards \cup FreeBoards

(***************************************************************************)
(* LogicSolver.isSolvable.  sim holds the locals of one call:              *)
(*   pc               where the call stands                                *)
(*   grid             the simulation grid (state, isMine, value per cell)  *)
(*   hiddenSafeCount  the running counter                                  *)
(*   stack            the pending reveal(x, y) calls of the recursion, the *)
(*                    next one first                                       *)
(*   ret              where the outermost reveal returns to                *)
(*   changed, x, y    the deduction loop's flag and cursor                 *)
(*   todo             what is left of rule 2's hidden.forEach              *)
(*   result           the returned boolean                                 *)
(*   revealed         history: how often line 56 ran for each cell         *)
(*   inLoop           history: a pass of the deduction loop has begun      *)
(*   moved            history: a cell changed its state since the current  *)
(*                    pass began                                           *)
(***************************************************************************)
Idle ==
    [pc |-> "idle", grid |-> <<>>, hiddenSafeCount |-> 0, stack |-> <<>>, ret |-> "none",
     changed |-> FALSE, x |-> 0, y |-> 0, todo |-> <<>>, result |-> FALSE,
     revealed |-> <<>>, inLoop |-> FALSE, moved |-> FALSE]

\* Lines 12-34: the grid is built from the board, every cell hidden; a position
\* without a cell becomes a safe cell with count 0.
GridOf(b) ==
    [c \in Cells(b.bounds) |->
        [state |-> "hidden",
         isMine |-> IF b.cells[c].isSuccess THEN b.cells[c].containsMine ELSE FALSE,
         value |-> IF b.cells[c].isSuccess THEN b.cells[c].adjacentMines ELSE 0]]

\* Mutant: the counter counts the mines too.
CountSafe_all(g) == Cardinality(DOMAIN g)

CountSafe(g) == Cardinality({c \in DOMAIN g : ~g[c].isMine})

\* Mutant: the counter outlives the call (a module-level hiddenSafeCount).
Construct_stale(prev, b) ==
    [Idle EXCEPT !.pc = "start",
                 !.grid = GridOf(b),
                 !.hiddenSafeCount = prev.hiddenSafeCount + CountSafe(GridOf(b)),
                 !.revealed = [c \in Cells(b.bounds) |-> 0]]

\* prev is whatever an earlier call left behind: grid and hiddenSafeCount are
\* locals (lines 13-14), so nothing of it is read.
Construct(prev, b) ==
    [Idle EXCEPT !.pc = "start",
                 !.grid = GridOf(b),
                 !.hiddenSafeCount = CountSafe(GridOf(b)),
                 !.revealed = [c \in Cells(b.bounds) |-> 0]]

\* Mutant: no test of the start cell.
StartCheck_noTest(s, p) == [s EXCEPT !.pc = "reveal", !.stack = <<p>>, !.ret = "while"]

\* Line 66-67: a mine start returns false at once; otherwise reveal(start).
StartCheck(s, p) ==
    IF s.grid[p].isMine
    THEN [s EXCEPT !.pc = "done", !.result = FALSE]
    ELSE [s EXCEPT !.pc = "reveal", !.stack = <<p>>, !.ret = "while"]

\* Mutant: the counter is not decremented.
reveal_noCount(s, bounds) ==
    LET c == Head(s.stack)
        cell == s.grid[c]
    IN IF cell.state # "hidden" \/ cell.isMine
       THEN [s EXCEPT !.stack = Tail(s.stack)]
       ELSE [s EXCEPT !.grid[c].state = "revealed",
                      !.revealed[c] = s.revealed[c] + 1,
                      !.moved = TRUE,
                      !.stack = IF cell.value = 0
                                THEN getNeighbors(bounds, c) \o Tail(s.stack)
                                ELSE Tail(s.stack)]

\* Mutant: the counter is decremented before the test of line 54.
reveal_countFirst(s, bounds) ==
    LET c == Head(s.stack)
        cell == s.grid[c]
    IN IF cell.state # "hidden" \/ cell.isMine
       THEN [s EXCEPT !.hiddenSafeCount = s.hiddenSafeCount - 1,
                      !.stack = Tail(s.stack)]
       ELSE [s EXCEPT !.grid[c].state = "revealed",
                      !.hiddenSafeCount = s.hiddenSafeCount - 1,
                      !.revealed[c] = s.revealed[c] + 1,
                      !.moved = TRUE,
                      !.stack = IF cell.value = 0
                                THEN getNeighbors(bounds, c) \o Tail(s.stack)
                                ELSE Tail(s.stack)]

\* Mutant: line 54 does not test isMine.
reveal_noMineTest(s, bounds) ==
    LET c == Head(s.stack)
        cell == s.grid[c]
    IN IF cell.state # "hidden"
       THEN [s EXCEPT !.stack = Tail(s.stack)]
       ELSE [s EXCEPT !.grid[c].state = "revealed",
                      !.hiddenSafeCount = s.hiddenSafeCount - 1,
                      !.revealed[c] = s.revealed[c] + 1,
                      !.moved = TRUE,
                      !.stack = IF cell.value = 0
                                THEN getNeighbors(bounds, c) \o Tail(s.stack)
                                ELSE Tail(s.stack)]

\* Mutant: a count of 0 does not reveal the neighbours.
reveal_noCascade(s, bounds) ==
    LET c == Head(s.stack)
        cell == s.grid[c]
    IN IF cell.state # "hidden" \/ cell.isMine
       THEN [s EXCEPT !.stack = Tail(s.stack)]
       ELSE [s EXCEPT !.grid[c].state = "revealed",
                      !.hiddenSafeCount = s.hiddenSafeCount - 1,
                      !.revealed[c] = s.revealed[c] + 1,
                      !.moved = TRUE,
                      !.stack = Tail(s.stack)]

\* Lines 52-63, one invocation reveal(x, y): the call on top of the stack.  A
\* cell that is not hidden, or a mine, returns at once; otherwise the cell is
\* revealed, the counter drops, and a count of 0 calls reveal on every
\* neighbour, in getNeighbors' order, before the caller's next call.
reveal(s, bounds) ==
    LET c == Head(s.stack)
        cell == s.grid[c]
    IN IF cell.state # "hidden" \/ cell.isMine
       THEN [s EXCEPT !.stack = Tail(s.stack)]
       ELSE [s EXCEPT !.grid[c].state = "revealed",
                      !.hiddenSafeCount = s.hiddenSafeCount - 1,
                      !.revealed[c] = s.revealed[c] + 1,
                      !.moved = TRUE,
                      !.stack = IF cell.value = 0
                                THEN getNeighbors(bounds, c) \o Tail(s.stack)
                                ELSE Tail(s.stack)]

\* The outermost reveal has returned: to line 70 (changed = true) after the
\* start cell, or into rule 2's forEach (line 95, changed = true).
RevealReturn(s) ==
    IF s.ret = "while"
    THEN [s EXCEPT !.pc = "while", !.changed = TRUE, !.ret = "none"]
    ELSE [s EXCEPT !.pc = "rule2", !.changed = TRUE, !.ret = "none",
                   !.todo = Tail(s.todo)]

\* Mutant: the loop goes on while safe cells are hidden, changed or not.
WhileTest_noChanged(s) ==
    IF s.hiddenSafeCount > 0
    THEN [s EXCEPT !.pc = "scan", !.changed = FALSE, !.x = 0, !.y = 0,
                   !.inLoop = TRUE, !.moved = FALSE]
    ELSE [s EXCEPT !.pc = "return"]

\* Mutant: an if instead of the while, a single pass.
WhileTest_onePass(s) ==
    IF s.changed /\ s.hiddenSafeCount > 0 /\ ~s.inLoop
    THEN [s EXCEPT !.pc = "scan", !.changed = FALSE, !.x = 0, !.y = 0,
                   !.inLoop = TRUE, !.moved = FALSE]
    ELSE [s EXCEPT !.pc = "return"]

\* Line 71-74: the while condition; a new pass starts at (0, 0).
WhileTest(s) ==
    IF s.changed /\ s.hiddenSafeCount > 0
    THEN [s EXCEPT !.pc = "scan", !.changed = FALSE, !.x = 0, !.y = 0,
                   !.inLoop = TRUE, !.moved = FALSE]
    ELSE [s EXCEPT !.pc = "return"]

\* The two for loops' step from (x, y): next column, next row, or pass over.
Advance(s, bounds) ==
    IF s.y + 1 < bounds.cols THEN [s EXCEPT !.pc = "scan", !.y = s.y + 1]
    ELSE IF s.x + 1 < bounds.rows THEN [s EXCEPT !.pc = "scan", !.x = s.x + 1, !.y = 0]
    ELSE [s EXCEPT !.pc = "while"]

\* Mutant: rule 1 compares the count with the hidden neighbours alone.
ScanCell_rule1NoFlagged(s, bounds) ==
    LET c == <<s.x, s.y>>
        neighbors == getNeighbors(bounds, c)
        hidden == SelectSeq(neighbors, LAMBDA n : s.grid[n].state = "hidden")
        flagged == SelectSeq(neighbors, LAMBDA n : s.grid[n].state = "flagged")
        rule1 == Len(hidden) > 0 /\ s.grid[c].value = Len(hidden)
        rule2 == Len(hidden) > 0 /\ s.grid[c].value = Len(flagged)
        s1 == IF rule1
              THEN [s EXCEPT !.grid = [d \in DOMAIN s.grid |->
                                         IF d \in SeqToSet(hidden)
                                         THEN [s.grid[d] EXCEPT !.state = "flagged"]
                                         ELSE s.grid[d]],
                             !.changed = TRUE,
                             !.moved = TRUE]
              ELSE s
    IN IF s.grid[c].state # "revealed" THEN Advance(s, bounds)
       ELSE IF rule2 THEN [s1 EXCEPT !.pc = "rule2", !.todo = hidden]
       ELSE Advance(s1, bounds)

\* Lines 76-97 for the cell at the cursor.  hidden and flagged are computed
\* once, before rule 1; rule 2 reads the same two lists.
ScanCell(s, bounds) ==
    LET c == <<s.x, s.y>>
        neighbors == getNeighbors(bounds, c)
        hidden == SelectSeq(neighbors, LAMBDA n : s.grid[n].state = "hidden")
        flagged == SelectSeq(neighbors, LAMBDA n : s.grid[n].state = "flagged")
        rule1 == Len(hidden) > 0 /\ s.grid[c].value = Len(flagged) + Len(hidden)
        rule2 == Len(hidden) > 0 /\ s.grid[c].value = Len(flagged)
        s1 == IF rule1
              THEN [s EXCEPT !.grid = [d \in DOMAIN s.grid |->
                                         IF d \in SeqToSet(hidden)
                                         THEN [s.grid[d] EXCEPT !.state = "flagged"]
                                         ELSE s.grid[d]],
                             !.changed = TRUE,
                             !.moved = TRUE]
              ELSE s
    IN IF s.grid[c].state # "revealed" THEN Advance(s, bounds)
       ELSE IF rule2 THEN [s1 EXCEPT !.pc = "rule2", !.todo = hidden]
       ELSE Advance(s1, bounds)

\* Lines 93-96: the forEach of rule 2 calls reveal on the next hidden
\* neighbour, or is over.
Rule2Next(s, bounds) ==
    IF s.todo = <<>> THEN Advance(s, bounds)
    ELSE [s EXCEPT !.pc = "reveal", !.stack = <<Head(s.todo)>>, !.ret = "rule2"]

\* Line 104.
Return(s) == [s EXCEPT !.pc = "done", !.result = (s.hiddenSafeCount = 0)]

\* One step of a call of isSolvable(b, p).
SolverStep(s, b, p) ==
    CASE s.pc = "idle" -> Construct(s, b)
      [] s.pc = "start" -> StartCheck(s, p)
      [] s.pc = "reveal" -> IF s.stack = <<>> THEN RevealReturn(s) ELSE reveal(s, b.bounds)
      [] s.pc = "while" -> WhileTest(s)
      [] s.pc = "scan" -> ScanCell(s, b.bounds)
      [] s.pc = "rule2" -> Rule2Next(s, b.bounds)
      [] s.pc = "return" -> Return(s)
      [] OTHER -> s

RECURSIVE RunSolver(_, _, _)
RunSolver(s, b, p) == IF s.pc = "done" THEN s ELSE RunSolver(SolverStep(s, b, p), b, p)

\* isSolvable(board, startPosition) as a function of its arguments (for the
\* boards on which the call returns).
isSolvable(b, p) == RunSolver(Idle, b, p).result

(***************************************************************************)
(* The solver, step by step, on every board and start of the bounds; a     *)
(* returned call may be followed by another call with the same arguments.  *)
(***************************************************************************)
NoBoard == [bounds |-> [rows |-> 0, cols |-> 0], cells |-> <<>>]

NoPosition == <<>>

NoService == [board |-> NoBoard]

\* No generation is running.
GenIdle ==
    /\ config = [rows |-> 0, cols |-> 0, minesNumber |-> 0]
    /\ attemptCount = 0
    /\ isSolvableFlag = FALSE
    /\ gpc = "none"
    /\ positions = <<>>
    /\ service = NoService
    /\ signal = "none"
    /\ error = "none"
    /\ drawn = FALSE
    /\ firstTrue = 0
    /\ verifiedBoard = NoBoard
    /\ placeMinesCalls = 0
    /\ boardWrites = 0

\* No game service exists.
GameIdle ==
    /\ isGameActive = FALSE
    /\ isFirstMove = FALSE
    /\ onFirstMoveInitialization = "unset"
    /\ trace = <<>>
    /\ missed = FALSE

SolverIdle ==
    /\ sim = Idle
    /\ calls = 0
    /\ verdicts = <<>>

\* No reference deduction is running.
RefIdle == ref = <<>>

SolverInit ==
    /\ board \in Boards
    /\ startPosition \in Cells(board.bounds)
    /\ SolverIdle
    /\ RefIdle
    /\ GenIdle
    /\ GameIdle

Call ==
    /\ sim.pc = "idle"
    /\ sim' = Construct(sim, board)
    /\ calls' = calls + 1
    /\ UNCHANGED <<ref, board, startPosition, verdicts, genVars, gameVars>>

Start ==
    /\ sim.pc = "start"
    /\ sim' = StartCheck(sim, startPosition)
    /\ UNCHANGED <<ref, board, startPosition, calls, verdicts, genVars, gameVars>>

RevealCall ==
    /\ sim.pc = "reveal"
    /\ sim.stack # <<>>
    /\ sim' = reveal(sim, board.bounds)
    /\ UNCHANGED <<ref, board, startPosition, calls, verdicts, genVars, gameVars>>

RevealDone ==
    /\ sim.pc = "reveal"
    /\ sim.stack = <<>>
    /\ sim' = RevealReturn(sim)
    /\ UNCHANGED <<ref, board, startPosition, calls, verdicts, genVars, gameVars>>

While ==
    /\ sim.pc = "while"
    /\ sim' = WhileTest(sim)
    /\ UNCHANGED <<ref, board, startPosition, calls, verdicts, genVars, gameVars>>

Scan ==
    /\ sim.pc = "scan"
    /\ sim' = ScanCell(sim, board.bounds)
    /\ UNCHANGED <<ref, board, startPosition, calls, verdicts, genVars, gameVars>>

Rule2 ==
    /\ sim.pc = "rule2"
    /\ sim' = Rule2Next(sim, board.bounds)
    /\ UNCHANGED <<ref, board, startPosition, calls, verdicts, genVars, gameVars>>

Finish ==
    /\ sim.pc = "return"
    /\ sim' = Return(sim)
    /\ verdicts' = Append(verdicts, sim'.result)
    /\ UNCHANGED <<ref, board, startPosition, calls, genVars, gameVars>>

SolverNext ==
    \/ Call \/ Start \/ RevealCall \/ RevealDone \/ While \/ Scan \/ Rule2 \/ Finish

SolverSpec == SolverInit /\ [][SolverNext]_vars

\* isSolvable is synchronous code: a call that can take a step takes it.
SolverFairSpec == SolverSpec /\ WF_vars(SolverNext)

\* A returned call is followed by another call with the same arguments.
CallAgain ==
    /\ sim.pc = "done"
    /\ calls < MaxCalls
    /\ sim' = Construct(sim, board)
    /\ calls' = calls + 1
    /\ UNCHANGED <<ref, board, startPosition, verdicts, genVars, gameVars>>

RepeatNext == SolverNext \/ CallAgain

RepeatSpec == SolverInit /\ [][RepeatNext]_vars

(***************************************************************************)
(* The reference model of the deduction: beside a returned call of         *)
(* isSolvable on a board with consistent counts and a non-mine start, the  *)
(* two rules are applied to one Revealed cell at a time, in any order,     *)
(* until neither applies to any cell.                                      *)
(***************************************************************************)
NeighboursIn(g, bounds, c, st) ==
    {n \in SeqToSet(getNeighbors(bounds, c)) : g[n].state = st}

\* The cells of todo are revealed, and with a cell of count 0 its neighbours;
\* a cell that is not Hidden, or is a mine, is left as it is.
RECURSIVE RefCascade(_, _, _)
RefCascade(g, bounds, todo) ==
    IF todo = {} THEN g
    ELSE LET c == CHOOSE d \in todo : TRUE
         IN IF g[c].state # "hidden" \/ g[c].isMine
            THEN RefCascade(g, bounds, todo \ {c})
            ELSE RefCascade([g EXCEPT ![c].state = "revealed"], bounds,
                            (todo \ {c}) \cup
                                (IF g[c].value = 0 THEN SeqToSet(getNeighbors(bounds, c)) ELSE {}))

\* Rule 1 applies to c: all its Hidden neighbours are mines.
Rule1Applies(g, bounds, c) ==
    /\ g[c].state = "revealed"
    /\ NeighboursIn(g, bounds, c, "hidden") # {}
    /\ g[c].value = Cardinality(NeighboursIn(g, bounds, c, "flagged"))
                      + Cardinality(NeighboursIn(g, bounds, c, "hidden"))

\* Rule 2 applies to c: all its Hidden neighbours are safe.
Rule2Applies(g, bounds, c) ==
    /\ g[c].state = "revealed"
    /\ NeighboursIn(g, bounds, c, "hidden") # {}
    /\ g[c].value = Cardinality(NeighboursIn(g, bounds, c, "flagged"))

\* A call on a board with consistent counts and a non-mine start has
\* returned; the reference model has revealed the start cell.
RefInit ==
    /\ board \in ConsistentBoards
    /\ startPosition \in Cells(board.bounds) \ MineCells(board)
    /\ sim = RunSolver(Idle, board, startPosition)
    /\ calls = 1
    /\ verdicts = <<sim.result>>
    /\ ref = RefCascade(GridOf(board), board.bounds, {startPosition})
    /\ GenIdle
    /\ GameIdle

RefRule1 ==
    \E c \in DOMAIN ref :
        /\ Rule1Applies(ref, board.bounds, c)
        /\ ref' = [d \in DOMAIN ref |->
                      IF d \in NeighboursIn(ref, board.bounds, c, "hidden")
                      THEN [ref[d] EXCEPT !.state = "flagged"]
                      ELSE ref[d]]
        /\ UNCHANGED <<board, startPosition, solverVars, genVars, gameVars>>

RefRule2 ==
    \E c \in DOMAIN ref :
        /\ Rule2Applies(ref, board.bounds, c)
        /\ ref' = RefCascade(ref, board.bounds, NeighboursIn(ref, board.bounds, c, "hidden"))
        /\ UNCHANGED <<board, startPosition, solverVars, genVars, gameVars>>

RefNext == RefRule1 \/ RefRule2

RefSpec == RefInit /\ [][RefNext]_vars

(***************************************************************************)
(* generateMinePositions (ServiceRegistration.js, lines 122-141).          *)
(***************************************************************************)
DigitChar == <<"0", "1", "2", "3", "4", "5", "6", "7", "8", "9">>

\* A non-negative integer in a template literal: its decimal digits.
RECURSIVE DecimalString(_)
DecimalString(n) ==
    IF n < 10 THEN <<DigitChar[n + 1]>> ELSE DecimalString(n \div 10) \o <<DigitChar[(n % 10) + 1]>>

\* `${x},${y}` as a list of characters.
PositionKey(p) == DecimalString(p[1]) \o <<",">> \o DecimalString(p[2])

\* Mutant: a board of mines only is let through.
TooManyMines_gt(cfg) == cfg.minesNumber > cfg.rows * cfg.cols

\* Line 126: the configuration the sampler rejects.
TooManyMines(cfg) == cfg.minesNumber >= cfg.rows * cfg.cols

\* Mutant: only the last position is compared.
PushIfNew_last(list, p) ==
    IF Len(list) > 0 /\ PositionKey(list[Len(list)]) = PositionKey(p)
    THEN list
    ELSE Append(list, p)

\* Lines 131-137 for one drawn coordinate (x, y): pushed unless a position with
\* the same key is in the list.
PushIfNew(list, p) ==
    IF \E i \in 1 .. Len(list) : PositionKey(list[i]) = PositionKey(p)
    THEN list
    ELSE Append(list, p)

\* Math.floor(Math.random() * n): any of 0 .. n-1.
RandomBelow(n) == 0 .. n - 1

\* generateMinePositions is entered: line 126 throws or the loop starts.
SampleEnter ==
    /\ gpc = "sample"
    /\ positions' = <<>>
    /\ IF TooManyMines(config)
       THEN /\ gpc' = "thrown"
            /\ error' = "Mine count cannot exceed total cells"
       ELSE /\ gpc' = "sampling"
            /\ UNCHANGED error
    /\ UNCHANGED <<ref, board, startPosition, solverVars, gameVars, config, attemptCount,
                   isSolvableFlag, service, signal, drawn, firstTrue, verifiedBoard,
                   placeMinesCalls, boardWrites>>

\* One iteration of the while loop of line 130.
Draw ==
    /\ gpc = "sampling"
    /\ Len(positions) < config.minesNumber
    /\ \E x \in RandomBelow(config.rows), y \in RandomBelow(config.cols) :
          positions' = PushIfNew(positions, <<x, y>>)
    /\ drawn' = TRUE
    /\ UNCHANGED <<ref, board, startPosition, solverVars, gameVars, config, attemptCount,
                   isSolvableFlag, gpc, service, signal, error, firstTrue, verifiedBoard,
                   placeMinesCalls, boardWrites>>

\* Line 140 when the sampler is called on its own.
SampleReturn ==
    /\ gpc = "sampling"
    /\ ~(Len(positions) < config.minesNumber)
    /\ attemptCount = 0
    /\ gpc' = "sampled"
    /\ UNCHANGED <<ref, board, startPosition, solverVars, gameVars, config, attemptCount,
                   isSolvableFlag, positions, service, signal, error, drawn, firstTrue,
                   verifiedBoard, placeMinesCalls, boardWrites>>

Configs(maxCells, maxMines) ==
    {cfg \in [rows : 1 .. maxCells, cols : 1 .. maxCells, minesNumber : 0 .. maxCells + 1] :
        /\ cfg.rows * cfg.cols <= maxCells
        /\ \/ cfg.minesNumber <= maxMines
           \/ cfg.minesNumber >= cfg.rows * cfg.cols}

\* generateMinePositions(config), called on its own.
SamplerInit ==
    /\ config \in Configs(MaxCells, MaxMines)
    /\ gpc = "sample"
    /\ board = NoBoard
    /\ startPosition = NoPosition
    /\ attemptCount = 0
    /\ isSolvableFlag = FALSE
    /\ positions = <<>>
    /\ service = NoService
    /\ signal = "none"
    /\ error = "none"
    /\ drawn = FALSE
    /\ firstTrue = 0
    /\ verifiedBoard = NoBoard
    /\ placeMinesCalls = 0
    /\ boardWrites = 0
    /\ SolverIdle
    /\ RefIdle
    /\ GameIdle

SamplerNext == SampleEnter \/ Draw \/ SampleReturn

SamplerSpec == SamplerInit /\ [][SamplerNext]_vars

(***************************************************************************)
(* gameServiceFactory (ServiceRegistration.js, lines 55-96).               *)
(***************************************************************************)
MAX_ATTEMPTS == 500

\* Mutant: the verdict is not part of the condition.
LoopGuard_capOnly(solvable, attempts) == attempts < MAX_ATTEMPTS

\* Line 64: the loop's condition.
LoopGuard(solvable, attempts) == ~solvable /\ attempts < MAX_ATTEMPTS

\* Line 89: the branch that warns.
Exhausted(attempts) == attempts >= MAX_ATTEMPTS

\* boardFactory(config): a board of cells without mines.
FreshBoard(cfg) == MakeBoard([rows |-> cfg.rows, cols |-> cfg.cols], {})

\* board.placeMines fails on a coordinate out of bounds or a repeated one.
PlaceMinesFails(cfg, list) ==
    \/ \E i \in 1 .. Len(list) : ~InBounds([rows |-> cfg.rows, cols |-> cfg.cols], list[i])
    \/ Cardinality(SeqToSet(list)) # Len(list)

\* The cells in the order of the two for loops of findZeroMineCell.
RowMajor(cfg) == [i \in 1 .. cfg.rows * cfg.cols |-> <<(i - 1) \div cfg.cols, (i - 1) % cfg.cols>>]

\* Mutant: the scan keeps the last cell it finds instead of returning the first.
findZeroMineCell_last(b, cfg) ==
    LET order == RowMajor(cfg)
        zero(i) == /\ b.cells[order[i]].isSuccess
                   /\ ~b.cells[order[i]].containsMine
                   /\ b.cells[order[i]].adjacentMines = 0
        hits == {i \in 1 .. Len(order) : zero(i)}
    IN IF hits = {} THEN NoPosition
       ELSE order[CHOOSE i \in hits : \A j \in hits : i >= j]

\* findZeroMineCell(board, config): the first cell, in that order, that is no
\* mine and has count 0; NoPosition (null) when there is none.
findZeroMineCell(b, cfg) ==
    LET order == RowMajor(cfg)
        zero(i) == /\ b.cells[order[i]].isSuccess
                   /\ ~b.cells[order[i]].containsMine
                   /\ b.cells[order[i]].adjacentMines = 0
        hits == {i \in 1 .. Len(order) : zero(i)}
    IN IF hits = {} THEN NoPosition
       ELSE order[CHOOSE i \in hits : \A j \in hits : i <= j]

\* Mutant: the board is made once, before the loop, and used by every attempt.
AttemptStart_reuseBoard ==
    /\ gpc = "loop"
    /\ LoopGuard(isSolvableFlag, attemptCount)
    /\ attemptCount' = attemptCount + 1
    /\ board' = IF attemptCount = 0 THEN FreshBoard(config) ELSE board
    /\ gpc' = "sample"
    /\ sim' = Idle
    /\ UNCHANGED <<ref, startPosition, calls, verdicts, gameVars, config, isSolvableFlag,
                   positions, service, signal, error, drawn, firstTrue, verifiedBoard,
                   placeMinesCalls, boardWrites>>

\* Lines 64-68: the condition holds, the attempt is counted and a new board
\* made (no isSolvable call of an earlier attempt is left);
\* generateMinePositions is called next.
AttemptStart ==
    /\ gpc = "loop"
    /\ LoopGuard(isSolvableFlag, attemptCount)
    /\ attemptCount' = attemptCount + 1
    /\ board' = FreshBoard(config)
    /\ boardWrites' = 0
    /\ gpc' = "sample"
    /\ sim' = Idle
    /\ UNCHANGED <<ref, startPosition, calls, verdicts, gameVars, config, isSolvableFlag,
                   positions, service, signal, error, drawn, firstTrue, verifiedBoard,
                   placeMinesCalls>>

\* Lines 71-78: the sampler has returned its list; the mines are placed on the
\* board and the counts computed.
PlaceMines ==
    /\ gpc = "sampling"
    /\ ~(Len(positions) < config.minesNumber)
    /\ attemptCount > 0
    /\ placeMinesCalls' = placeMinesCalls + 1
    /\ boardWrites' = boardWrites + 1
    /\ IF PlaceMinesFails(config, positions)
       THEN /\ gpc' = "thrown"
            /\ error' = "placeMines failed"
            /\ UNCHANGED board
       ELSE /\ gpc' = "verify"
            /\ board' = MakeBoard(board.bounds, SeqToSet(positions))
            /\ UNCHANGED error
    /\ UNCHANGED <<ref, startPosition, solverVars, gameVars, config, attemptCount, isSolvableFlag,
                   positions, service, signal, drawn, firstTrue, verifiedBoard>>

\* Lines 81-86: the start candidate is looked for and, when there is one,
\* isSolvable is called (sim is the returned call) and decides.
Verify ==
    /\ gpc = "verify"
    /\ startPosition' = findZeroMineCell(board, config)
    /\ sim' = IF startPosition' # NoPosition
              THEN RunSolver(Idle, board, startPosition')
              ELSE sim
    /\ isSolvableFlag' = IF startPosition' # NoPosition
                         THEN sim'.result
                         ELSE isSolvableFlag
    /\ firstTrue' = IF isSolvableFlag' /\ firstTrue = 0 THEN attemptCount ELSE firstTrue
    /\ verifiedBoard' = IF isSolvableFlag' /\ firstTrue = 0 THEN board ELSE verifiedBoard
    /\ gpc' = "loop"
    /\ UNCHANGED <<ref, board, calls, verdicts, gameVars, config, attemptCount, positions,
                   service, signal, error, drawn, placeMinesCalls, boardWrites>>

\* Lines 89-95: the loop is over; the warning or the completion message, and
\* the game service of the board is returned.
Exit ==
    /\ gpc = "loop"
    /\ ~LoopGuard(isSolvableFlag, attemptCount)
    /\ signal' = IF Exhausted(attemptCount) THEN "warn" ELSE "log"
    /\ service' = [board |-> board]
    /\ gpc' = "returned"
    /\ UNCHANGED <<ref, board, startPosition, solverVars, gameVars, config, attemptCount,
                   isSolvableFlag, positions, error, drawn, firstTrue, verifiedBoard,
                   placeMinesCalls, boardWrites>>

\* gameServiceFactory(config) is called.
GenInit ==
    /\ config \in Configs(GenMaxCells, GenMaxMines)
    /\ gpc = "loop"
    /\ board = NoBoard
    /\ startPosition = NoPosition
    /\ attemptCount = 0
    /\ isSolvableFlag = FALSE
    /\ positions = <<>>
    /\ service = NoService
    /\ signal = "none"
    /\ error = "none"
    /\ drawn = FALSE
    /\ firstTrue = 0
    /\ verifiedBoard = NoBoard
    /\ placeMinesCalls = 0
    /\ boardWrites = 0
    /\ SolverIdle
    /\ RefIdle
    /\ GameIdle

GenNext == AttemptStart \/ SampleEnter \/ Draw \/ PlaceMines \/ Verify \/ Exit

GenSpec == GenInit /\ [][GenNext]_vars

(***************************************************************************)
(* MinesweeperGameService (MinesweeperGameService.js): startNewGame,       *)
(* revealCell, toggleCellFlag and setFirstMoveInitialization, as far as    *)
(* the first move goes.  What cellInteractionService and gameRules answer  *)
(* is an input of each call.                                               *)
(***************************************************************************)
GamePositions == Cells([rows |-> 1, cols |-> 2])

\* TypeGuards.isValidPosition: a position object, as opposed to null.
IsValidPosition(p) == p # NoPosition

Event(ev, p) == [ev |-> ev, pos |-> p]

\* Mutant: the initializer is given the board's first cell, not the position.
FirstMove_fixedPosition(first, callback, p) ==
    [isFirstMove |-> FALSE,
     events |-> IF first /\ callback = "set" THEN <<Event("init", <<0, 0>>)>> ELSE <<>>]

\* Mutant: isFirstMove is not cleared.
FirstMove_noClear(first, callback, p) ==
    [isFirstMove |-> first,
     events |-> IF first /\ callback = "set" THEN <<Event("init", p)>> ELSE <<>>]

\* Lines 71-84 of revealCell: on the first move the flag is cleared and the
\* initializer, when one is registered, is invoked with the position.
FirstMove(first, callback, p) ==
    [isFirstMove |-> FALSE,
     events |-> IF first /\ callback = "set" THEN <<Event("init", p)>> ELSE <<>>]

\* The service is constructed (lines 27-37); nothing is registered yet.
GameInit ==
    /\ isGameActive = FALSE
    /\ isFirstMove = TRUE
    /\ onFirstMoveInitialization = "unset"
    /\ trace = <<>>
    /\ missed = FALSE
    /\ board = NoBoard
    /\ startPosition = NoPosition
    /\ SolverIdle
    /\ RefIdle
    /\ GenIdle

setFirstMoveInitialization ==
    /\ onFirstMoveInitialization' = "set"
    /\ UNCHANGED <<ref, board, startPosition, solverVars, genVars, isGameActive, isFirstMove,
                   trace, missed>>

startNewGame ==
    /\ Len(trace) < MaxTrace
    /\ isGameActive' = TRUE
    /\ isFirstMove' = TRUE
    /\ trace' = Append(trace, Event("start", NoPosition))
    /\ UNCHANGED <<ref, board, startPosition, solverVars, genVars, onFirstMoveInitialization,
                   missed>>

\* revealCell(position): the two guards, the first-move branch, then
\* cellInteractionService.revealCell; a successful reveal may end the game.
revealCell ==
    \E p \in GamePositions \cup {NoPosition}, revealOk \in BOOLEAN, gameEnded \in BOOLEAN :
        IF ~isGameActive \/ ~IsValidPosition(p)
        THEN UNCHANGED vars
        ELSE LET fm == FirstMove(isFirstMove, onFirstMoveInitialization, p)
             IN /\ Len(trace) + 2 <= MaxTrace
                /\ isFirstMove' = fm.isFirstMove
                /\ trace' = trace \o fm.events \o <<Event("reveal", p)>>
                /\ missed' = (missed \/ (isFirstMove /\ onFirstMoveInitialization # "set"))
                /\ isGameActive' = ~(revealOk /\ gameEnded)
                /\ UNCHANGED <<ref, board, startPosition, solverVars, genVars,
                               onFirstMoveInitialization>>

\* toggleCellFlag(position): the two guards, then the flag; it may end the game.
toggleCellFlag ==
    \E p \in GamePositions \cup {NoPosition}, flagOk \in BOOLEAN, gameEnded \in BOOLEAN :
        IF ~isGameActive \/ ~IsValidPosition(p)
        THEN UNCHANGED vars
        ELSE /\ isGameActive' = ~(flagOk /\ gameEnded)
             /\ UNCHANGED <<ref, board, startPosition, solverVars, genVars, isFirstMove,
                            onFirstMoveInitialization, trace, missed>>

GameNext == setFirstMoveInitialization \/ startNewGame \/ revealCell \/ toggleCellFlag

GameSpec == GameInit /\ [][GameNext]_vars

(***************************************************************************)
(* DeferredSafeStart: a game service on a board without mines, whose       *)
(* first-move initializer samples the layout with the exclusion zone       *)
(* around the position revealCell hands it, places it and computes the     *)
(* counts.  revealCell is the code of MinesweeperGameService; the          *)
(* initializer is the sampler of the specification (section 4.5).          *)
(***************************************************************************)
\* The position the initializer was invoked with.
Anchor == trace[CHOOSE i \in 1 .. Len(trace) : trace[i].ev = "init"].pos

\* The 3x3 neighbourhood centred on the anchor, the anchor included.
Neighbourhood3x3(cfg, a) ==
    {a} \cup SeqToSet(getNeighbors([rows |-> cfg.rows, cols |-> cfg.cols], a))

\* The cells the sampler rejects: the neighbourhood, or, when
\* mineCount > totalCells - 9, the anchor alone.
ExclusionZone(cfg, a) ==
    IF cfg.minesNumber > cfg.rows * cfg.cols - 9 THEN {a} ELSE Neighbourhood3x3(cfg, a)

\* One drawn coordinate: rejected when it repeats a position of the list or
\* falls in the exclusion zone.
PushIfAllowed(list, p, cfg, a) ==
    IF p \in ExclusionZone(cfg, a) THEN list ELSE PushIfNew(list, p)

\* startNewGame has been called on a service with a registered initializer and
\* a board without mines.
DeferredInit ==
    /\ config \in Configs(DefMaxCells, DefMaxMines)
    /\ board = FreshBoard(config)
    /\ isGameActive = TRUE
    /\ isFirstMove = TRUE
    /\ onFirstMoveInitialization = "set"
    /\ trace = <<Event("start", NoPosition)>>
    /\ missed = FALSE
    /\ startPosition = NoPosition
    /\ gpc = "none"
    /\ attemptCount = 0
    /\ isSolvableFlag = FALSE
    /\ positions = <<>>
    /\ service = NoService
    /\ signal = "none"
    /\ error = "none"
    /\ drawn = FALSE
    /\ firstTrue = 0
    /\ verifiedBoard = NoBoard
    /\ placeMinesCalls = 0
    /\ boardWrites = 0
    /\ SolverIdle
    /\ RefIdle

\* revealCell(position), lines 61-77, the player's first move: the flag is
\* cleared and the initializer invoked; it rejects a configuration without a
\* free cell or starts to sample.
DeferredFirstMove ==
    \E p \in Cells(board.bounds) :
        LET fm == FirstMove(isFirstMove, onFirstMoveInitialization, p)
        IN /\ isGameActive
           /\ isFirstMove
           /\ gpc = "none"
           /\ isFirstMove' = fm.isFirstMove
           /\ trace' = trace \o <<Event("call", p)>> \o fm.events
           /\ IF TooManyMines(config)
              THEN gpc' = "thrown" /\ error' = "Mine count cannot exceed total cells"
              ELSE gpc' = "excluding" /\ UNCHANGED error
           /\ UNCHANGED <<ref, board, startPosition, solverVars, config, attemptCount,
                          isSolvableFlag, positions, service, signal, drawn, firstTrue,
                          verifiedBoard, placeMinesCalls, boardWrites, isGameActive,
                          onFirstMoveInitialization, missed>>

\* One draw of the exclusion-zone sampler.
ExclusionDraw ==
    /\ gpc = "excluding"
    /\ Len(positions) < config.minesNumber
    /\ \E x \in RandomBelow(config.rows), y \in RandomBelow(config.cols) :
          positions' = PushIfAllowed(positions, <<x, y>>, config, Anchor)
    /\ drawn' = TRUE
    /\ UNCHANGED <<ref, board, startPosition, solverVars, gameVars, config, attemptCount,
                   isSolvableFlag, gpc, service, signal, error, firstTrue, verifiedBoard,
                   placeMinesCalls, boardWrites>>

\* The layout is complete: it is placed, the counts are computed once, the
\* initializer returns and line 86 runs the reveal logic.
DeferredPlace ==
    /\ gpc = "excluding"
    /\ ~(Len(positions) < config.minesNumber)
    /\ board' = MakeBoard(board.bounds, SeqToSet(positions))
    /\ placeMinesCalls' = placeMinesCalls + 1
    /\ boardWrites' = boardWrites + 1
    /\ gpc' = "placed"
    /\ trace' = Append(trace, Event("reveal", trace[2].pos))
    /\ UNCHANGED <<ref, startPosition, solverVars, config, attemptCount, isSolvableFlag,
                   positions, service, signal, error, drawn, firstTrue, verifiedBoard,
                   isGameActive, isFirstMove, onFirstMoveInitialization, missed>>

DeferredNext == DeferredFirstMove \/ ExclusionDraw \/ DeferredPlace

DeferredSpec == DeferredInit /\ [][DeferredNext]_vars

(***************************************************************************)
(* Properties of isSolvable.                                               *)
(***************************************************************************)
SafeCells(g) == {c \in DOMAIN g : ~g[c].isMine}

AllSafeRevealed(g) == \A c \in SafeCells(g) : g[c].state = "revealed"

SomeFlagged(g) == \E c \in DOMAIN g : g[c].state = "flagged"

Returned == sim.pc = "done"

\* C1: for every board and every in-bounds start cell that is not a mine, a
\* call that returns returns true exactly when every non-mine cell of the
\* simulation grid is Revealed, and false otherwise.
C1_VerdictIffAllSafeRevealed ==
    (Returned /\ ~sim.grid[startPosition].isMine)
        => (sim.result <=> AllSafeRevealed(sim.grid))

\* A call on a non-mine start has returned true after the deduction loop
\* flagged a cell.
C1_Witness ==
    /\ Returned
    /\ ~sim.grid[startPosition].isMine
    /\ sim.result
    /\ SomeFlagged(sim.grid)

\* C4: on a board with consistent counts, every call of isSolvable returns
\* (the deduction loop reaches a pass that changes nothing, or hiddenSafeCount
\* reaches 0), and the cascade reveals no cell twice.
C4_Terminates ==
    /\ [](\A c \in DOMAIN sim.revealed : sim.revealed[c] <= 1)
    /\ ((sim.pc = "start" /\ Consistent(board)) ~> Returned)

\* On a board with consistent counts the loop has ended on a pass that changed
\* nothing, after an earlier pass flagged a cell, with safe cells still hidden.
C4_Witness ==
    /\ Consistent(board)
    /\ sim.pc = "return"
    /\ ~sim.changed
    /\ sim.hiddenSafeCount > 0
    /\ SomeFlagged(sim.grid)

\* C5: calls of isSolvable with the same board and start return the same
\* boolean, and a later call starts from the grid the board alone determines,
\* whatever the earlier call left.
C5_SameVerdict ==
    /\ \A i, j \in 1 .. Len(verdicts) : verdicts[i] = verdicts[j]
    /\ sim.pc = "start" => sim = Construct(Idle, board)

\* Two calls have returned true after deduction flagged a cell.
C5_Witness ==
    /\ Len(verdicts) = 2
    /\ verdicts[1]
    /\ Returned
    /\ SomeFlagged(sim.grid)

\* C6: when the start position is a mine, isSolvable returns false and no
\* cell of the simulation grid has been revealed or flagged.
C6_MineStartReturnsFalse ==
    (Returned /\ sim.grid[startPosition].isMine)
        => /\ ~sim.result
           /\ \A c \in DOMAIN sim.grid : sim.grid[c].state = "hidden"
           /\ sim.hiddenSafeCount = CountSafe(sim.grid)

\* A call whose start is a mine has returned, on a board of mines only.
C6_Witness ==
    /\ Returned
    /\ sim.grid[startPosition].isMine
    /\ SafeCells(sim.grid) = {}

\* The 3x3 board with one mine at (2,2) and consistent counts.
Board3x3 == MakeBoard([rows |-> 3, cols |-> 3], {<<2, 2>>})

\* C10: on the 3x3 board with one mine at (2,2), isSolvable(board, (0,0))
\* returns true.
C10_Scenario3x3 ==
    (Returned /\ board = Board3x3 /\ startPosition = <<0, 0>>) => sim.result

\* The call on that board from (0,0) has returned, the eight safe cells revealed.
C10_Witness ==
    /\ Returned
    /\ board = Board3x3
    /\ startPosition = <<0, 0>>
    /\ Cardinality({c \in DOMAIN sim.grid : sim.grid[c].state = "revealed"}) = 8

MissingCell(b) == \E c \in Cells(b.bounds) : ~b.cells[c].isSuccess

\* C11 (as claimed): a board with no cell at some in-bounds position is
\* rejected before the simulation: no call stands on a grid in which a cell
\* was made up for a position the board has no cell for.
C11_NoDefaultFacts == \A c \in DOMAIN sim.grid : board.cells[c].isSuccess

HiddenSafe(g) == {c \in SafeCells(g) : g[c].state # "revealed"}

\* C13: in every state of a call (after the construction, after each reveal,
\* after each rule) hiddenSafeCount is the number of non-mine cells of the
\* grid that are not Revealed.
C13_CounterMatchesGrid ==
    sim.pc # "idle" => sim.hiddenSafeCount = Cardinality(HiddenSafe(sim.grid))

\* Rule 2 is revealing a cell in a pass, cells flagged and safe cells hidden.
C13_Witness ==
    /\ sim.pc = "reveal"
    /\ sim.ret = "rule2"
    /\ sim.moved
    /\ SomeFlagged(sim.grid)
    /\ sim.hiddenSafeCount > 0

NoOpReveal ==
    /\ sim.pc = "reveal"
    /\ sim.stack # <<>>
    /\ sim.grid[Head(sim.stack)].state # "hidden" \/ sim.grid[Head(sim.stack)].isMine

\* C14: every cell starts Hidden; a step changes a cell's state only from
\* Hidden, and only to Revealed or Flagged (so a cell changes at most once and
\* a Revealed or Flagged cell stays as it is); a mine is never Revealed; and
\* reveal on a cell that is not Hidden, or is a mine, changes neither the grid
\* nor hiddenSafeCount.
C14_Lifecycle ==
    /\ [](sim.pc = "start" => \A c \in DOMAIN sim.grid : sim.grid[c].state = "hidden")
    /\ [](\A c \in DOMAIN sim.grid : sim.grid[c].isMine => sim.grid[c].state # "revealed")
    /\ [][sim.pc # "idle" =>
            \A c \in DOMAIN sim.grid :
                sim'.grid[c].state # sim.grid[c].state =>
                    /\ sim.grid[c].state = "hidden"
                    /\ sim'.grid[c].state \in {"revealed", "flagged"}]_vars
    /\ [][NoOpReveal =>
            (sim'.grid = sim.grid /\ sim'.hiddenSafeCount = sim.hiddenSafeCount)]_vars

\* Rule 2 calls reveal on a mine, in a run that has flagged a cell.
C14_Witness ==
    /\ NoOpReveal
    /\ sim.ret = "rule2"
    /\ sim.grid[Head(sim.stack)].isMine

\* C15 (as claimed): once the loop runs, changed is true only if a cell
\* changed state since the current pass began, on every grid.
C15_ChangedOnlyIfMoved == (sim.inLoop /\ sim.changed) => sim.moved

Cursor == <<sim.x, sim.y>>

HiddenNeighbours(c) ==
    {n \in SeqToSet(getNeighbors(board.bounds, c)) : sim.grid[n].state = "hidden"}

ScansInertCell ==
    /\ sim.pc = "scan"
    /\ \/ sim.grid[Cursor].state # "revealed"
       \/ Consistent(board) /\ sim.grid[Cursor].value = 0

\* C17: the loop's rules act only on Revealed cells with a positive count: a
\* scanned cell that is not Revealed is left alone, and on a board with
\* consistent counts a scanned Revealed cell with count 0 has no Hidden
\* neighbour, so that the scan of it flags nothing, reveals nothing and does
\* not set changed.
C17_ZeroCellsInert ==
    /\ []((ScansInertCell /\ sim.grid[Cursor].state = "revealed")
             => HiddenNeighbours(Cursor) = {})
    /\ [][ScansInertCell =>
            /\ sim'.grid = sim.grid
            /\ sim'.changed = sim.changed
            /\ sim'.pc # "rule2"]_vars

\* The loop scans a Revealed cell with count 0 after a cell was flagged.
C17_Witness ==
    /\ Consistent(board)
    /\ sim.pc = "scan"
    /\ sim.grid[Cursor].state = "revealed"
    /\ sim.grid[Cursor].value = 0
    /\ SomeFlagged(sim.grid)

\* C19: on a board with consistent counts every Flagged cell is a mine, rule 2
\* fires only for a cell without a Hidden mine neighbour, and every reveal it
\* issues (the cascade that follows included) is for a non-mine cell.
C19_DeductionsSound ==
    Consistent(board) =>
        /\ \A c \in DOMAIN sim.grid : sim.grid[c].state = "flagged" => sim.grid[c].isMine
        /\ sim.pc = "rule2" =>
              /\ \A n \in HiddenNeighbours(Cursor) : ~sim.grid[n].isMine
              /\ \A i \in 1 .. Len(sim.todo) : ~sim.grid[sim.todo[i]].isMine
        /\ (sim.pc = "reveal" /\ sim.ret = "rule2") =>
              \A i \in 1 .. Len(sim.stack) : ~sim.grid[sim.stack[i]].isMine

\* Rule 2 has fired next to a flagged mine.
C19_Witness ==
    /\ Consistent(board)
    /\ sim.pc = "rule2"
    /\ sim.todo # <<>>
    /\ \E n \in SeqToSet(getNeighbors(board.bounds, Cursor)) : sim.grid[n].state = "flagged"

RevealedCells(g) == {c \in DOMAIN g : g[c].state = "revealed"}

\* Neither rule applies to any cell of the reference grid.
RefDone ==
    \A c \in DOMAIN ref :
        ~Rule1Applies(ref, board.bounds, c) /\ ~Rule2Applies(ref, board.bounds, c)

\* C20: on every board with consistent counts and every non-mine start, when
\* the reference model can apply no rule any more, whatever the order it
\* applied them in, its Revealed cells are those of the returned call of
\* isSolvable, and the call's boolean says whether the reference model has
\* revealed every non-mine cell.
C20_OrderIndependent ==
    RefDone =>
        /\ RevealedCells(ref) = RevealedCells(sim.grid)
        /\ sim.result <=> (HiddenSafe(ref) = {})

\* The reference model has ended with two cells flagged and every safe cell
\* revealed, beside a call that returned true after its loop ran.
C20_Witness ==
    /\ ref # <<>>
    /\ RefDone
    /\ Cardinality({c \in DOMAIN ref : ref[c].state = "flagged"}) >= 2
    /\ HiddenSafe(ref) = {}
    /\ sim.inLoop
    /\ sim.result

(***************************************************************************)
(* Properties of gameServiceFactory and generateMinePositions.             *)
(***************************************************************************)
ValidConfig == config.minesNumber < config.rows * config.cols

GenReturned == gpc = "returned"

\* What the loop's run must look like at every moment: at most the cap's
\* attempts, no attempt after a true verdict, and at the return the attempts
\* 1..k with k the first true verdict or the cap, and the service holding the
\* board of attempt k.
C2_LoopShape ==
    /\ attemptCount <= MAX_ATTEMPTS
    /\ firstTrue # 0 => (isSolvableFlag /\ attemptCount = firstTrue)
    /\ GenReturned =>
          /\ attemptCount = IF firstTrue # 0 THEN firstTrue ELSE MAX_ATTEMPTS
          /\ service.board = board
          /\ MineCells(service.board) = SeqToSet(positions)
          /\ firstTrue # 0 => service.board = verifiedBoard

\* How far the factory is from its end: the attempts left, then the steps left
\* in the attempt (the sampler's missing positions among them).
GenRank ==
    LET stage == CASE gpc = "sample" -> config.minesNumber + 4
                   [] gpc = "sampling" -> (config.minesNumber - Len(positions)) + 3
                   [] gpc = "verify" -> 2
                   [] gpc = "loop" -> 1
                   [] OTHER -> 0
    IN (MAX_ATTEMPTS - attemptCount) * (config.minesNumber + 5) + stage

GenEnded == gpc \in {"returned", "thrown"}

\* Some step of the factory changes the state (Verify has no guard but its
\* place in the code).
GenCanStep ==
    \/ ENABLED <<AttemptStart>>_vars
    \/ ENABLED <<SampleEnter>>_vars
    \/ ENABLED <<Draw>>_vars
    \/ ENABLED <<PlaceMines>>_vars
    \/ gpc = "verify"
    \/ ENABLED <<Exit>>_vars

\* C2: the generation runs attempts 1..k, k the first attempt with a true
\* verdict or the cap of 500: no attempt starts after a true verdict, never
\* more than 500 run, and the returned board is that of attempt k.  The call
\* returns: every step brings the factory nearer to its end (GenRank drops),
\* and for a configuration the sampler accepts it never throws and, until it
\* has returned, can take a step (the sampler can draw a position not yet in
\* its list).
C2_AttemptsUntilVerifiedOrCap ==
    /\ []C2_LoopShape
    /\ [][attemptCount' # attemptCount => (~isSolvableFlag /\ attemptCount' = attemptCount + 1)]_vars
    /\ [][GenRank' < GenRank /\ GenRank' >= 0]_vars
    /\ [](ValidConfig => (gpc # "thrown" /\ (~GenEnded => GenCanStep)))

\* A generation has returned the board verified at its third attempt.
C2_Witness ==
    /\ GenReturned
    /\ firstTrue = 3
    /\ attemptCount = 3
    /\ service.board = verifiedBoard

\* C3 (as claimed): the warning is raised exactly when the cap was reached with
\* no verified layout; a generation whose returned layout was verified, the
\* 500th attempt included, reports completion.
C3_WarnIffUnverified ==
    GenReturned => (signal = "warn" <=> (attemptCount >= MAX_ATTEMPTS /\ ~isSolvableFlag))

\* C7: a configuration with minesNumber >= rows*cols is rejected in the first
\* attempt with the sampler's error, before any coordinate is drawn; no
\* further attempt is made and no service is returned.
C7_TooManyMinesRejected ==
    (config.minesNumber >= config.rows * config.cols) =>
        /\ ~drawn
        /\ service = NoService
        /\ attemptCount <= 1
        /\ gpc \in {"loop", "sample", "thrown"}
        /\ gpc = "thrown" <=> error = "Mine count cannot exceed total cells"
        /\ positions = <<>>

\* The factory has thrown on a 2x2 configuration with four mines.
C7_Witness ==
    /\ config = [rows |-> 2, cols |-> 2, minesNumber |-> 4]
    /\ gpc = "thrown"
    /\ attemptCount = 1

ZeroCells(b) ==
    {c \in Cells(b.bounds) :
        b.cells[c].isSuccess /\ ~b.cells[c].containsMine /\ b.cells[c].adjacentMines = 0}

\* (x, y) comes no later than (u, v) in row-major order.
RowMajorLeq(c, d) == c[1] < d[1] \/ (c[1] = d[1] /\ c[2] <= d[2])

\* An attempt has been through lines 81-86.
AttemptVerified == gpc \in {"loop", "returned"} /\ attemptCount > 0

\* C16: after the verification step of an attempt, the start candidate is the
\* non-mine cell with count 0 that comes first in row-major order, isSolvable
\* has been called from it and its verdict is the attempt's; when the layout
\* has no such cell the scan has returned none (null), isSolvable has not been
\* called and the attempt is not verified.
C16_StartCandidate ==
    AttemptVerified =>
        IF ZeroCells(board) = {}
        THEN /\ startPosition = NoPosition
             /\ sim.pc = "idle"
             /\ ~isSolvableFlag
        ELSE /\ startPosition \in ZeroCells(board)
             /\ \A c \in ZeroCells(board) : RowMajorLeq(startPosition, c)
             /\ sim.pc = "done"
             /\ sim.revealed[startPosition] = 1
             /\ isSolvableFlag = sim.result

\* The attempt on the 2x2 layout with mines at (0,1) and (1,0) is over, without
\* a start candidate and without a call of isSolvable.
C16_Witness ==
    /\ gpc = "loop"
    /\ attemptCount > 0
    /\ board = MakeBoard([rows |-> 2, cols |-> 2], {<<0, 1>>, <<1, 0>>})
    /\ startPosition = NoPosition
    /\ sim.pc = "idle"

\* The layout on the board has been verified, or the cap has exempted it.
Accepted == isSolvableFlag \/ (AttemptVerified /\ attemptCount >= MAX_ATTEMPTS)

\* C18 (as claimed): board.placeMines is called once in a generation, and a
\* board has received a placement only when its layout has been accepted.
C18_WriteOnceAfterAccept ==
    /\ placeMinesCalls <= 1
    /\ boardWrites > 0 => Accepted

\* C18 (amended): board.placeMines is called once in every attempt, on the
\* board made for that attempt and before its layout is verified; a board
\* never receives a second placement, and the returned board holds the layout
\* of the last attempt.  Sampling (generateMinePositions) and verification
\* (findZeroMineCell, isSolvable) leave the board as it is.
C18_OneWritePerAttempt ==
    /\ [](boardWrites = IF gpc \in {"verify", "returned"} \/ AttemptVerified THEN 1 ELSE 0)
    /\ [](placeMinesCalls = IF boardWrites = 1 THEN attemptCount
                            ELSE IF attemptCount = 0 THEN 0 ELSE attemptCount - 1)
    /\ [](boardWrites = 1 => MineCells(board) = SeqToSet(positions))
    /\ [](GenReturned => service.board = board)
    /\ [][(gpc \in {"sample", "verify"}) => (board' = board)]_vars
    /\ [][(gpc = "sampling" /\ Len(positions) < config.minesNumber) => (board' = board)]_vars

\* The third attempt has placed its layout and is about to be verified.
C18_Witness ==
    /\ gpc = "verify"
    /\ attemptCount = 3
    /\ placeMinesCalls = 3
    /\ boardWrites = 1
    /\ MineCells(board) # {}

PairwiseDistinct(list) == \A i, j \in 1 .. Len(list) : i # j => list[i] # list[j]

\* C8: for 0 <= minesNumber < rows*cols the sampler's list is pairwise
\* distinct and in bounds at every step, never longer than minesNumber, and
\* has exactly minesNumber entries when the sampler returns.
C8_SamplerList ==
    ValidConfig =>
        /\ PairwiseDistinct(positions)
        /\ \A i \in 1 .. Len(positions) :
              InBounds([rows |-> config.rows, cols |-> config.cols], positions[i])
        /\ Len(positions) <= config.minesNumber
        /\ gpc = "sampled" => Len(positions) = config.minesNumber

\* The sampler has returned three positions of a 3x3 board.
C8_Witness ==
    /\ gpc = "sampled"
    /\ config = [rows |-> 3, cols |-> 3, minesNumber |-> 3]
    /\ Len(positions) = 3

(***************************************************************************)
(* Properties of MinesweeperGameService.                                   *)
(***************************************************************************)
\* The position of the player's first revealCell call.
FirstMoveCell == trace[CHOOSE i \in 1 .. Len(trace) : trace[i].ev = "call"].pos

\* C12: with mineCount <= rows*cols - 9, the layout sampled at the player's
\* first move has no mine in the 3x3 neighbourhood of the first-move cell: no
\* position of the sampler's list is in it at any step, and the board on which
\* the reveal logic runs holds mineCount mines, none of them in it.
C12_SafeFirstNeighbourhood ==
    (config.minesNumber <= config.rows * config.cols - 9 /\ gpc \in {"excluding", "placed"}) =>
        /\ SeqToSet(positions) \cap Neighbourhood3x3(config, FirstMoveCell) = {}
        /\ gpc = "placed" =>
              /\ MineCells(board) \cap Neighbourhood3x3(config, FirstMoveCell) = {}
              /\ Cardinality(MineCells(board)) = config.minesNumber
              /\ trace[Len(trace)] = Event("reveal", FirstMoveCell)

\* A 3x4 board has been mined at the first move (1,1) with two mines.
C12_Witness ==
    /\ gpc = "placed"
    /\ config = [rows |-> 3, cols |-> 4, minesNumber |-> 2]
    /\ FirstMoveCell = <<1, 1>>
    /\ Cardinality(MineCells(board)) = 2

Indices(ev) == {i \in 1 .. Len(trace) : trace[i].ev = ev}

First(S) == CHOOSE i \in S : \A j \in S : i <= j

\* C9 (as claimed): over any sequence of calls on a service with a registered
\* initializer, the initializer is invoked exactly once, with the position of
\* the first accepted revealCell, before the reveal logic first runs.
C9_ExactlyOnce ==
    (~missed /\ Indices("reveal") # {}) =>
        /\ Cardinality(Indices("init")) = 1
        /\ First(Indices("init")) < First(Indices("reveal"))
        /\ trace[First(Indices("init"))].pos = trace[First(Indices("reveal"))].pos

\* C9 (amended): in every game, from one startNewGame to the next, on a
\* service whose initializer is registered when the game's first move is made:
\* the initializer is invoked right after the startNewGame, in the first
\* accepted revealCell, with its position and before that call's
\* cellInteractionService.revealCell; no reveal logic of the game runs before
\* it, and it is not invoked again until the next startNewGame.
C9_OncePerGame ==
    ~missed =>
        \A i \in 1 .. Len(trace) :
            /\ trace[i].ev = "init" =>
                  /\ i > 1 /\ trace[i - 1].ev = "start"
                  /\ i < Len(trace) /\ trace[i + 1] = Event("reveal", trace[i].pos)
            /\ trace[i].ev = "reveal" =>
                  /\ i > 1 /\ trace[i - 1].ev \in {"init", "reveal"}

\* Two games have been played on one service, the initializer invoked in each.
C9_Witness ==
    /\ ~missed
    /\ Cardinality(Indices("start")) = 2
    /\ Cardinality(Indices("init")) = 2
    /\ Cardinality(Indices("reveal")) = 2

====
